---- MODULE Spec2Model ----
(***************************************************************************)
(* Process-management core of ErrorOS: the PID allocator, the process      *)
(* control block, the round-robin Scheduler and the global (lock-guarded)  *)
(* scheduler interface together with the timer path of the trap            *)
(* dispatcher.                                                             *)
(***************************************************************************)
EXTENDS Naturals, Integers, Sequences, FiniteSets, TLC

(***************************************************************************)
(* Bounds of the model.                                                    *)
(***************************************************************************)
MaxPid == 2
MaxQueue == 3
\* clock advances (in timer intervals) followed in the kernel runs
MaxTime == 2
\* pids the round-robin scenario draws its three ids from
MaxRRPid == 5
\* ticks followed in the round-robin scenario
MaxTicks == 16

(***************************************************************************)
(* Program constants.                                                      *)
(***************************************************************************)
\* Option<ProcessId>::None (pid 0 is never allocated: NEXT_PID starts at 1).
None == 0
\* NEXT_PID's initial value.
FIRST_PID == 1
\* The time slice given by ProcessControlBlock::new and reset_time_slice.
QUANTUM == 5
\* set_next_timer's TIMER_INTERVAL (clock cycles between two timer interrupts)
TIMER_INTERVAL == 1000000

ProcessState == {"Ready", "Running", "Blocked", "Zombie"}
\* exit codes passed to set_exit_code (i32 inputs drawn from a small set)
ExitCodes == {0, 42}

VARIABLES
    next_pid,      \* pid.rs NEXT_PID
    pcbs,          \* the process handles that exist: pid -> PCB fields
    processes,     \* Scheduler.processes: the keys of the process table
    ready_queue,   \* Scheduler.ready_queue
    current,       \* Scheduler.current (None = 0)
    primitive,     \* the switch primitive invoked by the last operation
    lock_held,     \* SCHEDULER (spin::Mutex) is locked
    lock_owner,    \* the execution that locked it (None = the boot execution)
    cpu,           \* the execution on the CPU (None = the boot execution)
    spin,          \* the execution on the CPU spins on SCHEDULER
    sie,           \* sstatus.SIE
    kpc,           \* position of the execution on the CPU
    mtime,         \* the time CSR
    timer_deadline,\* the deadline last given to sbi_set_timer
    run_log        \* the ids promoted to Running, in order (scenario runs)

schedVars == <<next_pid, pcbs, processes, ready_queue, current, primitive>>
kernelVars == <<lock_held, lock_owner, cpu, spin, sie, kpc, mtime, timer_deadline>>
vars == <<next_pid, pcbs, processes, ready_queue, current, primitive,
          lock_held, lock_owner, cpu, spin, sie, kpc, mtime, timer_deadline, run_log>>

(***************************************************************************)
(* Helpers on sequences.                                                   *)
(***************************************************************************)
Range(s) == {s[i] : i \in 1..Len(s)}

\* VecDeque::retain(|&p| p != pid)
RECURSIVE Retain(_, _)
Retain(s, pid) ==
    IF s = <<>> THEN <<>>
    ELSE IF Head(s) = pid THEN Retain(Tail(s), pid)
         ELSE <<Head(s)>> \o Retain(Tail(s), pid)

(***************************************************************************)
(* ProcessControlBlock (pcb.rs).                                           *)
(***************************************************************************)
\* ProcessControlBlock::new: Ready, time slice 5, no exit code.
NewPcb == [state |-> "Ready", time_slice |-> QUANTUM, exit_code |-> {}]

set_state(pcb, st) == [pcb EXCEPT !.state = st]

reset_time_slice(pcb) == [pcb EXCEPT !.time_slice = QUANTUM]

\* set_exit_code that stores the code and leaves the state alone
set_exit_code_only(pcb, code) == [pcb EXCEPT !.exit_code = {code}]

\* exit_code: Option<i32> is {} for None and {c} for Some(c)
set_exit_code(pcb, code) == [pcb EXCEPT !.exit_code = {code}, !.state = "Zombie"]

\* ProcessControlBlock::is_zombie
is_zombie(pcb) == pcb.state = "Zombie"

\* ProcessControlBlock::can_reclaim
can_reclaim(pcb) == is_zombie(pcb)

\* ProcessControlBlock::tick: the PCB after the call
pcb_tick(pcb) ==
    IF pcb.time_slice > 0 THEN [pcb EXCEPT !.time_slice = pcb.time_slice - 1]
    ELSE pcb

\* a tick that reports whether the time slice was 0 before the call
pcb_tick_ret_before(pcb) == pcb.time_slice = 0

\* ProcessControlBlock::tick: the value returned
pcb_tick_ret(pcb) == pcb_tick(pcb).time_slice = 0

(***************************************************************************)
(* Scheduler (scheduler.rs).  A scheduler value s is a record of the       *)
(* Scheduler's fields, the PCBs its handles point to and the switch        *)
(* primitive the operation invoked.                                        *)
(***************************************************************************)
NoPrimitive == [kind |-> "none", from |-> None, to |-> None]

St == [processes |-> processes, ready_queue |-> ready_queue, current |-> current,
       pcbs |-> pcbs, primitive |-> NoPrimitive]

\* Scheduler::get_process(pid).is_some()
has_process(s, pid) == pid \in s.processes

\* enqueue that puts the id at the head of the ready queue
enqueue_front(s, pid) ==
    IF has_process(s, pid) /\ s.pcbs[pid].state = "Ready"
    THEN [s EXCEPT !.ready_queue = <<pid>> \o s.ready_queue]
    ELSE s

\* Scheduler::enqueue
enqueue(s, pid) ==
    IF has_process(s, pid) /\ s.pcbs[pid].state = "Ready"
    THEN [s EXCEPT !.ready_queue = Append(s.ready_queue, pid)]
    ELSE s

\* switch_to that promotes the next entry without demoting the current one
switch_to_no_demote(s, current_pid, next_pid_) ==
    LET s2 == [s EXCEPT !.pcbs[next_pid_] = reset_time_slice(set_state(@, "Running")),
                        !.current = next_pid_]
    IN [s2 EXCEPT !.primitive = [kind |-> "switch_context",
                                 from |-> current_pid, to |-> next_pid_]]

\* switch_to that calls the primitive before it records the new current id
switch_to_current_late(s, current_pid, next_pid_) ==
    LET s1 == IF s.pcbs[current_pid].state = "Running"
              THEN enqueue([s EXCEPT !.pcbs[current_pid] = set_state(@, "Ready")],
                           current_pid)
              ELSE s
        s2 == [s1 EXCEPT !.pcbs[next_pid_] = reset_time_slice(set_state(@, "Running"))]
    IN [s2 EXCEPT !.primitive = [kind |-> "switch_context",
                                 from |-> current_pid, to |-> next_pid_]]

\* switch_to that demotes and queues the current entry whatever its state
switch_to_always_enqueue(s, current_pid, next_pid_) ==
    LET s1 == enqueue([s EXCEPT !.pcbs[current_pid] = set_state(@, "Ready")], current_pid)
        s2 == [s1 EXCEPT !.pcbs[next_pid_] = reset_time_slice(set_state(@, "Running")),
                         !.current = next_pid_]
    IN [s2 EXCEPT !.primitive = [kind |-> "switch_context",
                                 from |-> current_pid, to |-> next_pid_]]

\* Scheduler::switch_to
switch_to(s, current_pid, next_pid_) ==
    LET s1 == IF s.pcbs[current_pid].state = "Running"
              THEN enqueue([s EXCEPT !.pcbs[current_pid] = set_state(@, "Ready")],
                           current_pid)
              ELSE s
        s2 == [s1 EXCEPT !.pcbs[next_pid_] = reset_time_slice(set_state(@, "Running")),
                         !.current = next_pid_]
    IN [s2 EXCEPT !.primitive = [kind |-> "switch_context",
                                 from |-> current_pid, to |-> next_pid_]]

\* start_process that promotes the entry without resetting its time slice
start_process_no_reset(s, next_pid_) ==
    [s EXCEPT !.pcbs[next_pid_] = set_state(@, "Running"),
              !.current = next_pid_,
              !.primitive = [kind |-> "start", from |-> None, to |-> next_pid_]]

\* Scheduler::start_process
start_process(s, next_pid_) ==
    [s EXCEPT !.pcbs[next_pid_] = reset_time_slice(set_state(@, "Running")),
              !.current = next_pid_,
              !.primitive = [kind |-> "start", from |-> None, to |-> next_pid_]]

\* schedule that starts the next entry without saving the current one
schedule_never_saves(s) ==
    IF s.ready_queue = <<>> THEN s
    ELSE LET next == Head(s.ready_queue)
             s1 == [s EXCEPT !.ready_queue = Tail(@)]
         IN IF ~has_process(s1, next) THEN s1
            ELSE IF next = s1.current
                 THEN [s1 EXCEPT !.pcbs[next] = reset_time_slice(set_state(@, "Running"))]
            ELSE start_process(s1, next)

\* schedule that puts the id back when it popped the current one
schedule_same_requeues(s) ==
    IF s.ready_queue = <<>> THEN s
    ELSE LET next == Head(s.ready_queue)
             s1 == [s EXCEPT !.ready_queue = Tail(@)]
         IN IF ~has_process(s1, next) THEN s1
            ELSE IF next = s1.current
                 THEN [s1 EXCEPT !.pcbs[next] = reset_time_slice(set_state(@, "Running")),
                                 !.ready_queue = Append(@, next)]
            ELSE IF s1.current # None
                 THEN switch_to(s1, s1.current, next)
            ELSE start_process(s1, next)

\* schedule that drops the current entry when nothing is ready
schedule_idle_clears_current(s) ==
    IF s.ready_queue = <<>> THEN [s EXCEPT !.current = None]
    ELSE LET next == Head(s.ready_queue)
             s1 == [s EXCEPT !.ready_queue = Tail(@)]
         IN IF ~has_process(s1, next) THEN s1
            ELSE IF next = s1.current
                 THEN [s1 EXCEPT !.pcbs[next] = reset_time_slice(set_state(@, "Running"))]
            ELSE IF s1.current # None
                 THEN switch_to(s1, s1.current, next)
            ELSE start_process(s1, next)

\* Scheduler::schedule (pick_next pops the head of the ready queue)
schedule(s) ==
    IF s.ready_queue = <<>> THEN s
    ELSE LET next == Head(s.ready_queue)
             s1 == [s EXCEPT !.ready_queue = Tail(@)]
         IN IF ~has_process(s1, next) THEN s1
            ELSE IF next = s1.current
                 THEN [s1 EXCEPT !.pcbs[next] = reset_time_slice(set_state(@, "Running"))]
            ELSE IF s1.current # None
                 THEN switch_to(s1, s1.current, next)
            ELSE start_process(s1, next)

\* add_process that queues the id whatever the entry's state is
add_process_always_queues(s, pid) ==
    [s EXCEPT !.processes = @ \cup {pid}, !.ready_queue = Append(@, pid)]

\* Scheduler::add_process
add_process(s, pid) ==
    LET s1 == [s EXCEPT !.processes = @ \cup {pid}]
    IN IF s.pcbs[pid].state = "Ready"
       THEN [s1 EXCEPT !.ready_queue = Append(@, pid)]
       ELSE s1

\* remove_process that removes the table key only
remove_process_table_only(s, pid) == [s EXCEPT !.processes = @ \ {pid}]

\* remove_process that leaves the ready queue alone
remove_process_keeps_queue(s, pid) ==
    [s EXCEPT !.processes = @ \ {pid},
              !.current = IF @ = pid THEN None ELSE @]

\* Scheduler::remove_process
remove_process(s, pid) ==
    [s EXCEPT !.ready_queue = Retain(@, pid),
              !.processes = @ \ {pid},
              !.current = IF @ = pid THEN None ELSE @]

\* tick that calls schedule() whatever the time slice is
tick_always_schedules(s) ==
    IF s.current # None /\ has_process(s, s.current)
    THEN schedule([s EXCEPT !.pcbs[s.current] = pcb_tick(@)])
    ELSE s

\* tick that decrements the time slice and never calls schedule()
tick_no_schedule(s) ==
    IF s.current # None /\ has_process(s, s.current)
    THEN [s EXCEPT !.pcbs[s.current] = pcb_tick(@)]
    ELSE s

\* Scheduler::tick
tick(s) ==
    IF s.current # None /\ has_process(s, s.current)
    THEN LET s1 == [s EXCEPT !.pcbs[s.current] = pcb_tick(@)]
         IN IF pcb_tick_ret(s.pcbs[s.current]) THEN schedule(s1) ELSE s1
    ELSE s

\* Scheduler::block_current
block_current(s) ==
    IF s.current # None /\ has_process(s, s.current)
    THEN schedule([s EXCEPT !.pcbs[s.current] = set_state(@, "Blocked")])
    ELSE s

\* wake_up that does not look at the entry's state
wake_up_any_state(s, pid) ==
    IF has_process(s, pid)
    THEN enqueue([s EXCEPT !.pcbs[pid] = set_state(@, "Ready")], pid)
    ELSE s

\* Scheduler::wake_up
wake_up(s, pid) ==
    IF has_process(s, pid) /\ s.pcbs[pid].state = "Blocked"
    THEN enqueue([s EXCEPT !.pcbs[pid] = set_state(@, "Ready")], pid)
    ELSE s

(***************************************************************************)
(* The operations as actions on the Scheduler's state.                     *)
(***************************************************************************)
Apply(s) ==
    /\ processes' = s.processes
    /\ ready_queue' = s.ready_queue
    /\ current' = s.current
    /\ pcbs' = s.pcbs
    /\ primitive' = s.primitive

Handles == DOMAIN pcbs

\* what a call on a Scheduler value leaves alone
CallFrame == UNCHANGED <<next_pid, kernelVars, run_log>>

\* create_process_handle: ProcessControlBlock::new with a pid from ProcessId::new
CreateHandle ==
    /\ next_pid <= MaxPid
    /\ pcbs' = [p \in Handles \cup {next_pid} |->
                   IF p = next_pid THEN NewPcb ELSE pcbs[p]]
    /\ next_pid' = next_pid + 1
    /\ primitive' = NoPrimitive
    /\ UNCHANGED <<processes, ready_queue, current, kernelVars, run_log>>

AddProcess(p) ==
    /\ Len(ready_queue) < MaxQueue
    /\ Apply(add_process(St, p))
    /\ CallFrame

RemoveProcess(p) == Apply(remove_process(St, p)) /\ CallFrame

Schedule == Apply(schedule(St)) /\ CallFrame

Tick == Apply(tick(St)) /\ CallFrame

BlockCurrent == Apply(block_current(St)) /\ CallFrame

WakeUp(p) == Apply(wake_up(St, p)) /\ CallFrame

\* ProcessControlBlock::set_exit_code through a handle
SetExitCode(p, c) ==
    /\ pcbs' = [pcbs EXCEPT ![p] = set_exit_code(@, c)]
    /\ primitive' = NoPrimitive
    /\ UNCHANGED <<processes, ready_queue, current>>
    /\ CallFrame

SchedInit ==
    /\ next_pid = FIRST_PID
    /\ pcbs = <<>>
    /\ processes = {}
    /\ ready_queue = <<>>
    /\ current = None
    /\ primitive = NoPrimitive

KernelInit ==
    /\ lock_held = FALSE
    /\ lock_owner = None
    /\ cpu = None
    /\ spin = FALSE
    /\ sie = FALSE
    /\ kpc = "run"
    /\ mtime = 0
    /\ timer_deadline = TIMER_INTERVAL

Init == SchedInit /\ KernelInit /\ run_log = <<>>

\* Calls on a Scheduler value (no global lock involved)
Next ==
    \/ CreateHandle
    \/ \E p \in Handles : AddProcess(p)
    \/ \E p \in Handles : RemoveProcess(p)
    \/ BlockCurrent
    \/ \E p \in Handles : WakeUp(p)
    \/ Schedule
    \/ Tick
    \/ \E p \in Handles, c \in ExitCodes : SetExitCode(p, c)

Spec == Init /\ [][Next]_vars

(***************************************************************************)
(* The global interface: SCHEDULER is one spin::Mutex<Scheduler>; every    *)
(* global function is a statement `SCHEDULER.lock().op()` whose guard      *)
(* lives to the end of the statement.  One hart: an execution that finds   *)
(* the lock taken spins for ever.                                          *)
(***************************************************************************)
CanCall == ~spin /\ kpc = "run"

\* spin::Mutex::lock on a locked mutex
Spin ==
    /\ spin' = TRUE
    /\ UNCHANGED <<schedVars, lock_held, lock_owner, cpu, sie, kpc, mtime, timer_deadline, run_log>>

\* the statement SCHEDULER.lock().op() whose op left the scheduler as s: the
\* guard is dropped when op returns; an op that invokes a switch primitive does
\* not return, the guard stays on the stack of the calling execution
SchedulerCall(s) ==
    /\ Apply(s)
    /\ IF s.primitive.kind = "none"
       THEN lock_held' = FALSE /\ lock_owner' = None /\ kpc' = "run"
       ELSE lock_held' = TRUE /\ lock_owner' = cpu /\ kpc' = "at_switch"
    /\ UNCHANGED <<next_pid, cpu, spin, sie, mtime, timer_deadline, run_log>>

K_CreateHandle ==
    /\ CanCall
    /\ CreateHandle

\* scheduler::add_process
K_AddProcess(p) ==
    /\ CanCall
    /\ Len(ready_queue) < MaxQueue
    /\ IF lock_held THEN Spin ELSE SchedulerCall(add_process(St, p))

\* scheduler::start_scheduling
K_StartScheduling ==
    /\ CanCall
    /\ IF lock_held THEN Spin ELSE SchedulerCall(schedule(St))

\* scheduler::tick
K_Tick ==
    /\ CanCall
    /\ IF lock_held THEN Spin ELSE SchedulerCall(tick(St))

\* process::wake_up_process
K_WakeUp(p) ==
    /\ CanCall
    /\ IF lock_held THEN Spin ELSE SchedulerCall(wake_up(St, p))

\* process::exit_current_process
K_Exit(c) ==
    /\ CanCall
    /\ IF lock_held THEN Spin
       ELSE IF current # None /\ has_process(St, current)
            THEN SchedulerCall(schedule([St EXCEPT !.pcbs[current] = set_exit_code(@, c)]))
            ELSE UNCHANGED vars

\* process::block_current_process up to block_current's set_state(Blocked)
K_BlockBegin ==
    /\ CanCall
    /\ IF lock_held THEN Spin
       ELSE IF current # None /\ has_process(St, current)
            THEN /\ pcbs' = [pcbs EXCEPT ![current] = set_state(@, "Blocked")]
                 /\ primitive' = NoPrimitive
                 /\ lock_held' = TRUE
                 /\ lock_owner' = cpu
                 /\ kpc' = "blocking"
                 /\ UNCHANGED <<next_pid, processes, ready_queue, current,
                                cpu, spin, sie, mtime, timer_deadline, run_log>>
            ELSE UNCHANGED vars

\* block_current's call of schedule() and the end of the statement
K_BlockFinish ==
    /\ ~spin
    /\ kpc = "blocking"
    /\ SchedulerCall(schedule(St))

\* the switch primitive invoked by switch_to / start_process
SwitchPrimitive ==
    /\ ~spin
    /\ kpc = "at_switch"
    /\ \/ \* switch_context: the slot `to` is loaded, status word included
          /\ primitive.kind = "switch_context"
          /\ cpu' = primitive.to
          /\ \E b \in BOOLEAN : sie' = b
          /\ UNCHANGED <<lock_held, lock_owner>>
       \/ \* start_process's `mv sp; ret` continues on the stack of `to`
          /\ primitive.kind = "start"
          /\ cpu' = primitive.to
          /\ UNCHANGED <<lock_held, lock_owner, sie>>
       \/ \* start_process's `mv sp; ret` comes back into the calling statement
          /\ primitive.kind = "start"
          /\ lock_held' = FALSE
          /\ lock_owner' = None
          /\ UNCHANGED <<cpu, sie>>
    /\ kpc' = "run"
    /\ UNCHANGED <<schedVars, spin, mtime, timer_deadline, run_log>>

\* trap::enable_interrupts / trap::disable_interrupts
EnableInterrupts ==
    /\ CanCall
    /\ sie' = TRUE
    /\ UNCHANGED <<schedVars, lock_held, lock_owner, cpu, spin, kpc, mtime, timer_deadline, run_log>>

DisableInterrupts ==
    /\ CanCall
    /\ sie' = FALSE
    /\ UNCHANGED <<schedVars, lock_held, lock_owner, cpu, spin, kpc, mtime, timer_deadline, run_log>>

\* the time CSR passes the next interval
ClockAdvance ==
    /\ mtime < MaxTime * TIMER_INTERVAL
    /\ mtime' = mtime + TIMER_INTERVAL
    /\ UNCHANGED <<schedVars, lock_held, lock_owner, cpu, spin, sie, kpc, timer_deadline, run_log>>

\* set_next_timer
set_next_timer(time) == time + TIMER_INTERVAL

\* trap_handler on Interrupt::SupervisorTimer: timer_interrupt_handler
TimerInterrupt ==
    /\ sie
    /\ mtime >= timer_deadline
    /\ timer_deadline' = set_next_timer(mtime)
    /\ UNCHANGED <<schedVars, lock_held, lock_owner, cpu, spin, sie, kpc, mtime, run_log>>

NextKernel ==
    \/ K_CreateHandle
    \/ \E p \in Handles : K_AddProcess(p)
    \/ K_StartScheduling
    \/ K_Tick
    \/ \E p \in Handles : K_WakeUp(p)
    \/ \E c \in ExitCodes : K_Exit(c)
    \/ K_BlockBegin
    \/ K_BlockFinish
    \/ SwitchPrimitive
    \/ EnableInterrupts
    \/ DisableInterrupts
    \/ ClockAdvance
    \/ TimerInterrupt

SpecKernel == Init /\ [][NextKernel]_vars

(***************************************************************************)
(* Calls on a Scheduler value where add_process is only given entries      *)
(* whose state is Ready (fresh from ProcessControlBlock::new or not).      *)
(***************************************************************************)
AddReadyProcess(p) == pcbs[p].state = "Ready" /\ AddProcess(p)

NextReadyAdd ==
    \/ CreateHandle
    \/ \E p \in Handles : AddReadyProcess(p)
    \/ \E p \in Handles : RemoveProcess(p)
    \/ Schedule
    \/ Tick
    \/ BlockCurrent
    \/ \E p \in Handles : WakeUp(p)
    \/ \E p \in Handles, c \in ExitCodes : SetExitCode(p, c)

SpecReadyAdd == Init /\ [][NextReadyAdd]_vars

(***************************************************************************)
(* Properties of the Scheduler's state.                                    *)
(***************************************************************************)
RunningSet == {p \in processes : pcbs[p].state = "Running"}
ReadySet == {p \in processes : pcbs[p].state = "Ready"}

CurrentIsRunning == current # None => current \in RunningSet

\* C2: current is set only while its entry is Running (no Running entry means
\* current is None); stated for the states block_current() and schedule() end in.
C2_CurrentIsRunning == [][(BlockCurrent \/ Schedule) => CurrentIsRunning']_vars

\* C3: no id in the ready queue belongs to a Zombie entry.
C3_NoZombieInQueue ==
    \A i \in 1..Len(ready_queue) : pcbs[ready_queue[i]].state # "Zombie"

\* C4: Zombie is terminal: no step takes a Zombie entry to another state.
C4_ZombieTerminal ==
    [][\A p \in Handles : pcbs[p].state = "Zombie" => pcbs'[p].state = "Zombie"]_vars

\* C5: the ids in the ready queue are exactly the Ready entries of the table.
C5_QueueIsReadySet == Range(ready_queue) = ReadySet

\* C6: no id occurs twice in the ready queue.
C6_NoDuplicates ==
    \A i, j \in 1..Len(ready_queue) : ready_queue[i] = ready_queue[j] => i = j

(***************************************************************************)
(* Properties of the global interface and of the timer path.               *)
(***************************************************************************)
\* C7: SCHEDULER is not locked when a switch primitive is invoked, and no
\* execution spins on it while a suspended execution holds it.
C7_LockFreeAtSwitch ==
    /\ kpc = "at_switch" => ~lock_held
    /\ ~(spin /\ lock_held /\ lock_owner # cpu)

\* C8: interrupts are disabled from block_current's set_state(Blocked) until
\* schedule() has done its bookkeeping.
C8_InterruptsOffWhileBlocking == kpc = "blocking" => ~sie

\* the step changes the PCBs, the table, the ready queue and current as
\* Scheduler::tick does
TickApplied ==
    LET s == tick(St)
    IN /\ pcbs' = s.pcbs
       /\ processes' = s.processes
       /\ ready_queue' = s.ready_queue
       /\ current' = s.current

\* C9: every timer interrupt handled by the trap dispatcher drives
\* Scheduler::tick: the current entry's time slice is decremented once and
\* schedule() runs when it is used up.
C9_TimerDrivesTick == [][TimerInterrupt => TickApplied]_vars

(***************************************************************************)
(* The round-robin scenario: three entries are created and added in id     *)
(* order (ids may be skipped by other ProcessId::new calls), schedule() is *)
(* called once with no current entry, then the Scheduler is ticked.        *)
(* run_log holds the current id observed after schedule() and after each   *)
(* tick().                                                                 *)
(***************************************************************************)
RRFrame == UNCHANGED kernelVars

\* ProcessId::new called for something else than a scheduled entry
RR_AllocPid ==
    /\ Cardinality(processes) < 3
    /\ next_pid < MaxRRPid
    /\ next_pid' = next_pid + 1
    /\ UNCHANGED <<pcbs, processes, ready_queue, current, primitive, run_log>>
    /\ RRFrame

\* create_process_handle followed by add_process
RR_Add ==
    /\ Cardinality(processes) < 3
    /\ next_pid <= MaxRRPid
    /\ LET created == [p \in Handles \cup {next_pid} |->
                          IF p = next_pid THEN NewPcb ELSE pcbs[p]]
       IN Apply(add_process([St EXCEPT !.pcbs = created], next_pid))
    /\ next_pid' = next_pid + 1
    /\ UNCHANGED run_log
    /\ RRFrame

RR_Schedule ==
    /\ Cardinality(processes) = 3
    /\ run_log = <<>>
    /\ Apply(schedule(St))
    /\ run_log' = Append(run_log, schedule(St).current)
    /\ UNCHANGED next_pid
    /\ RRFrame

RR_Tick ==
    /\ run_log # <<>>
    /\ Len(run_log) <= MaxTicks
    /\ Apply(tick(St))
    /\ run_log' = Append(run_log, tick(St).current)
    /\ UNCHANGED next_pid
    /\ RRFrame

NextRR ==
    \/ RR_AllocPid
    \/ RR_Add
    \/ RR_Schedule
    \/ RR_Tick

SpecRR == Init /\ [][NextRR]_vars

\* the ids of S in increasing order
RECURSIVE Sorted(_)
Sorted(S) ==
    IF S = {} THEN <<>>
    ELSE LET m == CHOOSE x \in S : \A y \in S : x <= y
         IN <<m>> \o Sorted(S \ {m})

\* the entry whose turn the k-th quantum is, for entries added in the order ord
Turn(ord, k) == ord[(k % Len(ord)) + 1]

\* C10: with P1<P2<P3 added in id order, schedule() makes P1 Running with
\* quantum 5 and every 5th tick promotes the next entry in the rotation
\* P1, P2, P3, P1, ..., the preempted entry going to the tail of the queue.
C10_RoundRobin ==
    LET ord == Sorted(processes)
        n == Len(run_log)
        q == (n - 1) \div QUANTUM
    IN n > 0 =>
         /\ \A i \in 1..n : run_log[i] = Turn(ord, (i - 1) \div QUANTUM)
         /\ current = Turn(ord, q)
         /\ pcbs[current].state = "Running"
         /\ pcbs[current].time_slice = QUANTUM - ((n - 1) % QUANTUM)
         /\ ready_queue = <<Turn(ord, q + 1), Turn(ord, q + 2)>>
         /\ \A p \in processes \ {current} : pcbs[p].state = "Ready"

\* P1 runs again after P1, P2 and P3 have each used a full quantum
C10_Witness ==
    /\ Len(run_log) = 3 * QUANTUM + 1
    /\ Cardinality(processes) = 3
    /\ current = Sorted(processes)[1]
    /\ run_log[1] = current
    /\ run_log[QUANTUM + 1] = Sorted(processes)[2]
    /\ run_log[2 * QUANTUM + 1] = Sorted(processes)[3]
    /\ ready_queue[2] = Sorted(processes)[3]

(***************************************************************************)
(* The rotation scenario: N >= 2 fresh entries are created and added, the  *)
(* Scheduler is started by schedule() and is then ticked for ever, with    *)
(* schedule() also called at any time; nothing blocks, exits or is         *)
(* removed.  run_log holds the last Window ids that became Running.        *)
(***************************************************************************)
\* entries of the rotation scenario
MaxEntries == 3

Window == MaxEntries + 1

\* the entries that the operation taking s to t made Running
Promoted(s, t) ==
    {p \in t.processes : t.pcbs[p].state = "Running" /\ s.pcbs[p].state # "Running"}

LastPromoted(s, t) ==
    LET log == IF Promoted(s, t) = {} THEN run_log
               ELSE Append(run_log, CHOOSE p \in Promoted(s, t) : TRUE)
    IN IF Len(log) > Window THEN Tail(log) ELSE log

\* create_process_handle followed by add_process, before scheduling starts
F_Add ==
    /\ current = None
    /\ Cardinality(processes) < MaxEntries
    /\ LET created == [p \in Handles \cup {next_pid} |->
                          IF p = next_pid THEN NewPcb ELSE pcbs[p]]
       IN Apply(add_process([St EXCEPT !.pcbs = created], next_pid))
    /\ next_pid' = next_pid + 1
    /\ UNCHANGED <<kernelVars, run_log>>

\* start_scheduling: schedule() with no current entry
F_Start ==
    /\ current = None
    /\ Cardinality(processes) >= 2
    /\ Apply(schedule(St))
    /\ run_log' = LastPromoted(St, schedule(St))
    /\ UNCHANGED <<next_pid, kernelVars>>

\* schedule() called while an entry is current
F_Yield ==
    /\ current # None
    /\ Apply(schedule(St))
    /\ run_log' = LastPromoted(St, schedule(St))
    /\ UNCHANGED <<next_pid, kernelVars>>

F_Tick ==
    /\ Apply(tick(St))
    /\ run_log' = LastPromoted(St, tick(St))
    /\ UNCHANGED <<next_pid, kernelVars>>

NextFair ==
    \/ F_Add
    \/ F_Start
    \/ F_Yield
    \/ F_Tick

\* scheduling is started once two entries are there, and ticks keep occurring
SpecFair == Init /\ [][NextFair]_vars /\ WF_vars(F_Start) /\ WF_vars(F_Tick)

\* with two entries or more, a Ready entry of the table becomes Running
ReadyBecomesRunning ==
    \A p \in 1..MaxEntries :
        (p \in processes /\ Cardinality(processes) >= 2 /\ pcbs[p].state = "Ready")
            ~> (p \in processes /\ pcbs[p].state = "Running")

\* between two consecutive promotions of an entry every other entry of the
\* table is promoted exactly once
OncePerRotation ==
    \A i, j \in 1..Len(run_log) :
        (/\ i < j
         /\ run_log[i] = run_log[j]
         /\ \A k \in (i + 1)..(j - 1) : run_log[k] # run_log[i])
        => \A q \in processes \ {run_log[i]} :
               Cardinality({k \in (i + 1)..(j - 1) : run_log[k] = q}) = 1

BlocksCurrent == BlockCurrent /\ current # None /\ has_process(St, current)

\* C12: a Blocked entry does not become Running without a wake_up in between:
\* no step takes an entry from Blocked to Running, and the entry that
\* block_current() blocks is not promoted again by the schedule() it calls.
C12_BlockedNeedsWakeUp ==
    [][/\ \A p \in Handles : pcbs[p].state = "Blocked" => pcbs'[p].state # "Running"
       /\ BlocksCurrent => pcbs'[current].state = "Blocked"]_vars

\* the call block_current() finds a Running current entry in the table
BlocksRunningCurrent == BlocksCurrent /\ pcbs[current].state = "Running"

\* the call wake_up(p) finds a Blocked entry of the table
WakesBlocked(p) == WakeUp(p) /\ has_process(St, p) /\ pcbs[p].state = "Blocked"

\* C13: block_current() on the Running current entry leaves it Blocked and
\* absent from the ready queue; wake_up on a Blocked entry sets it Ready and
\* puts its id at the tail of the ready queue, behind every id already queued.
C13_BlockThenWakeUp ==
    [][/\ BlocksRunningCurrent =>
              /\ pcbs'[current].state = "Blocked"
              /\ current \notin Range(ready_queue')
       /\ \A p \in Handles :
              WakesBlocked(p) =>
                  /\ pcbs'[p].state = "Ready"
                  /\ ready_queue' = Append(ready_queue, p)]_vars

\* C14: wake_up(id) changes nothing (ready queue, current, every entry's
\* state) and raises nothing when id is not in the process table or its entry
\* is Ready, Running or Zombie.
C14_WakeUpNoOp ==
    \A p \in 1..MaxPid :
        (~has_process(St, p) \/ pcbs[p].state # "Blocked") => wake_up(St, p) = St

\* a Blocked entry that was removed from the table, next to a Running entry
\* of the table and a non-empty ready queue: wake_up of either is a no-op
C14_Witness ==
    /\ \E p \in Handles : ~has_process(St, p) /\ pcbs[p].state = "Blocked"
    /\ \E p \in processes : pcbs[p].state = "Running" /\ wake_up(St, p) = St
    /\ ready_queue # <<>>

(***************************************************************************)
(* Properties of the time slice.                                           *)
(***************************************************************************)
QuantumInRange == \A p \in Handles : pcbs[p].time_slice \in 0..QUANTUM

\* the step promotes entry p: p ends Running and either was not Running or
\* a schedule() of the step popped p's id (the next == current refresh)
PromotedByStep(p) ==
    /\ pcbs'[p].state = "Running"
    /\ \/ pcbs[p].state # "Running"
       \/ /\ Schedule \/ Tick \/ BlockCurrent
          /\ has_process(St, p)
          /\ ready_queue # <<>>
          /\ Head(ready_queue) = p
          /\ ready_queue' # ready_queue

\* C15: every entry's time slice is in [0, 5], and right after an operation
\* that makes an entry Running (first start, switch, or the next == current
\* refresh) that entry's time slice is 5.
C15_QuantumRangeAndReset ==
    /\ []QuantumInRange
    /\ [][\A p \in Handles : PromotedByStep(p) => pcbs'[p].time_slice = QUANTUM]_vars

\* a switch has just promoted the current entry with a full time slice while
\* the entry it preempted is left with none
C15_Witness ==
    /\ primitive.kind = "switch_context"
    /\ pcbs[current].state = "Running"
    /\ pcbs[current].time_slice = QUANTUM
    /\ pcbs[primitive.from].time_slice = 0

(***************************************************************************)
(* Calls on one ProcessControlBlock: reset_time_slice() and tick() in any  *)
(* order.  run_log holds the calls made and what each returned.            *)
(***************************************************************************)
\* calls followed on the PCB
MaxCalls == 8

P_New == Handles = {} /\ CreateHandle

P_Reset ==
    /\ Len(run_log) < MaxCalls
    /\ \E p \in Handles :
          /\ pcbs' = [pcbs EXCEPT ![p] = reset_time_slice(@)]
          /\ run_log' = Append(run_log, [op |-> "reset", ret |-> FALSE])
    /\ UNCHANGED <<next_pid, processes, ready_queue, current, primitive, kernelVars>>

P_Tick ==
    /\ Len(run_log) < MaxCalls
    /\ \E p \in Handles :
          /\ pcbs' = [pcbs EXCEPT ![p] = pcb_tick(@)]
          /\ run_log' = Append(run_log, [op |-> "tick", ret |-> pcb_tick_ret(pcbs[p])])
    /\ UNCHANGED <<next_pid, processes, ready_queue, current, primitive, kernelVars>>

NextPcb ==
    \/ P_New
    \/ P_Reset
    \/ P_Tick

SpecPcb == Init /\ [][NextPcb]_vars

\* the calls i+1..i+k of the log are k ticks that follow a reset at i
TicksAfterReset(i, k) ==
    /\ run_log[i].op = "reset"
    /\ \A j \in (i + 1)..(i + k) : run_log[j].op = "tick"

\* C16: tick() decrements the time slice only while it is above 0 and returns
\* true iff it is 0 afterwards: after reset_time_slice() ticks 1 to 4 return
\* false, tick 5 returns true, and every later tick returns true and leaves
\* the time slice at 0.
C16_PcbTick ==
    /\ [][P_Tick => \A p \in Handles :
              /\ pcbs'[p].time_slice =
                     IF pcbs[p].time_slice > 0 THEN pcbs[p].time_slice - 1 ELSE 0
              /\ run_log'[Len(run_log')].ret = (pcbs'[p].time_slice = 0)]_vars
    /\ [](\A i \in 1..Len(run_log) : \A k \in 1..(Len(run_log) - i) :
              TicksAfterReset(i, k) =>
                  /\ run_log[i + k].ret = (k >= QUANTUM)
                  /\ (i + k = Len(run_log)) =>
                         \A p \in Handles :
                             pcbs[p].time_slice = IF k >= QUANTUM THEN 0 ELSE QUANTUM - k)

\* a reset followed by seven ticks: the fifth, sixth and seventh returned true
C16_Witness ==
    /\ Len(run_log) = 8
    /\ TicksAfterReset(1, 7)
    /\ run_log[6].ret /\ run_log[7].ret /\ run_log[8].ret
    /\ ~run_log[5].ret

(***************************************************************************)
(* The PID allocator (pid.rs).  NEXT_PID is an AtomicUsize: fetch_add is   *)
(* one atomic step that wraps on overflow.  The width of usize is scaled   *)
(* down to PidBits bits.  A foreground call of ProcessId::new can be       *)
(* interrupted before or after its fetch_add by a handler that calls       *)
(* ProcessId::new itself and runs to completion.  run_log holds one record *)
(* per call, appended when the call is entered.                            *)
(***************************************************************************)
\* width of the counter in bits
PidBits == 3
\* calls of ProcessId::new followed
MaxAllocs == 9

RECURSIVE Pow2(_)
Pow2(n) == IF n = 0 THEN 1 ELSE 2 * Pow2(n - 1)

PidSpace == Pow2(PidBits)

\* fetch_add that stores the value it read
fetch_add_lost(v) == v % PidSpace

\* AtomicUsize::fetch_add(1): the value stored
fetch_add(v) == (v + 1) % PidSpace

PidFrame == UNCHANGED <<pcbs, processes, ready_queue, current, primitive,
                        lock_held, lock_owner, cpu, spin, mtime, timer_deadline>>

\* the record of the foreground's call in progress
FgCall == CHOOSE i \in 1..Len(run_log) :
              /\ run_log[i].by = "fg"
              /\ \A k \in (i + 1)..Len(run_log) : run_log[k].by = "irq"

\* the foreground enters ProcessId::new
FgEnter ==
    /\ CanCall
    /\ Len(run_log) < MaxAllocs
    /\ kpc' = "alloc_enter"
    /\ run_log' = Append(run_log, [by |-> "fg", phase |-> "enter", start |-> next_pid,
                                   id |-> next_pid, end |-> next_pid])
    /\ UNCHANGED <<next_pid, sie>>
    /\ PidFrame

\* the foreground's NEXT_PID.fetch_add(1, Relaxed)
FgFetch ==
    /\ kpc = "alloc_enter"
    /\ kpc' = "alloc_fetched"
    /\ next_pid' = fetch_add(next_pid)
    /\ run_log' = [run_log EXCEPT ![FgCall].phase = "fetched",
                                  ![FgCall].id = next_pid]
    /\ UNCHANGED sie
    /\ PidFrame

\* the foreground returns ProcessId(pid)
FgReturn ==
    /\ kpc = "alloc_fetched"
    /\ kpc' = "run"
    /\ run_log' = [run_log EXCEPT ![FgCall].phase = "done",
                                  ![FgCall].end = next_pid]
    /\ UNCHANGED <<next_pid, sie>>
    /\ PidFrame

\* an interrupt handler calls ProcessId::new and returns
IrqAllocate ==
    /\ sie
    /\ Len(run_log) < MaxAllocs
    /\ next_pid' = fetch_add(next_pid)
    /\ run_log' = Append(run_log, [by |-> "irq",
                                   phase |-> IF kpc = "run" THEN "outside" ELSE kpc,
                                   start |-> next_pid, id |-> next_pid,
                                   end |-> fetch_add(next_pid)])
    /\ UNCHANGED <<kpc, sie>>
    /\ PidFrame

NextPid ==
    \/ FgEnter
    \/ FgFetch
    \/ FgReturn
    \/ IrqAllocate
    \/ EnableInterrupts
    \/ DisableInterrupts

SpecPid == Init /\ [][NextPid]_vars

\* the call of record i is over and has returned an id
Returned(i) == run_log[i].by = "irq" \/ run_log[i].phase = "done"

\* the call of record j was made by a handler that interrupted the call of
\* record i
Interrupts(j, i) ==
    /\ i < j
    /\ run_log[i].by = "fg"
    /\ run_log[j].by = "irq"
    /\ run_log[j].phase # "outside"
    /\ \A k \in (i + 1)..j : run_log[k].by = "irq"

\* C17: the ids returned by a sequence of ProcessId::new calls are pairwise
\* distinct, and each is greater than every id returned by an earlier call.
C17_DistinctIncreasing ==
    \A i, j \in 1..Len(run_log) :
        (i < j /\ Returned(i) /\ Returned(j)) =>
            /\ run_log[i].id # run_log[j].id
            /\ ~Interrupts(j, i) => run_log[i].id < run_log[j].id

\* the calls that have done their fetch_add
Fetched == {i \in 1..Len(run_log) : run_log[i].phase # "enter"}

\* C18: the first call returns 1 and the k-th call returns k; 0 is never
\* returned and no value is returned twice, the counter being PidBits wide.
C18_KthIsK ==
    /\ \A i \in Fetched : run_log[i].id # 0
    /\ \A i, j \in Fetched : i # j => run_log[i].id # run_log[j].id
    /\ {run_log[i].id : i \in Fetched} = 1..Cardinality(Fetched)

\* the handler calls that interrupted the foreground call of record i
Interrupters(i) == {j \in 1..Len(run_log) : Interrupts(j, i)}

\* C19: a foreground ProcessId::new interrupted at any point by one handler
\* that calls ProcessId::new: the two calls return different ids and NEXT_PID
\* has advanced by exactly 2 (in the counter's arithmetic) when the
\* foreground call returns.
C19_InterruptSafe ==
    \A i \in 1..Len(run_log) :
        (/\ run_log[i].by = "fg"
         /\ run_log[i].phase = "done"
         /\ Cardinality(Interrupters(i)) = 1)
        => /\ \A j \in Interrupters(i) : run_log[j].id # run_log[i].id
           /\ run_log[i].end = (run_log[i].start + 2) % PidSpace

\* one foreground call was interrupted before its fetch_add and another one
\* after it, each by one handler call, and both have returned
C19_Witness ==
    \E i, k \in 1..Len(run_log) :
        /\ run_log[i].by = "fg" /\ run_log[i].phase = "done"
        /\ run_log[k].by = "fg" /\ run_log[k].phase = "done"
        /\ Cardinality(Interrupters(i)) = 1
        /\ Cardinality(Interrupters(k)) = 1
        /\ \A j \in Interrupters(i) : run_log[j].phase = "alloc_enter"
        /\ \A j \in Interrupters(k) : run_log[j].phase = "alloc_fetched"

WordBits == 20
\* bits of the status word that the hardware value ranges over
StatusWidth == 10

WORD == Pow2(WordBits)

\* sstatus_ext::SPP_BIT, SPIE_BIT
SPP_BIT == 8
SPIE_BIT == 5

Bit(v, b) == (v \div Pow2(b)) % 2

\* sstatus_ext::set_user_mode: *sstatus &= !(1 << SPP_BIT)
set_user_mode(v) == v - Bit(v, SPP_BIT) * Pow2(SPP_BIT)

\* sstatus_ext::enable_interrupt_on_return: *sstatus |= 1 << SPIE_BIT
enable_interrupt_on_return(v) == v + (1 - Bit(v, SPIE_BIT)) * Pow2(SPIE_BIT)

\* the general registers of ProcessContext
Registers == {"ra", "sp", "gp", "tp", "t0", "t1", "t2", "t3", "t4", "t5", "t6",
              "s0", "s1", "s2", "s3", "s4", "s5", "s6", "s7", "s8", "s9", "s10", "s11",
              "a0", "a1", "a2", "a3", "a4", "a5", "a6", "a7"}

\* ProcessContext::new
new_context == [gpr |-> [r \in Registers |-> 0], sepc |-> 0, sstatus |-> 0, satp |-> 0]

\* new_user_context that builds the status word from zero
new_user_context_zero_status(entry_point, user_stack_top, satp_value, hw_status) ==
    [new_context EXCEPT !.sepc = entry_point,
                        !.gpr["sp"] = user_stack_top,
                        !.satp = satp_value,
                        !.sstatus = enable_interrupt_on_return(set_user_mode(0))]

\* ProcessContext::new_user_context; hw_status is what `csrr sstatus` reads
new_user_context(entry_point, user_stack_top, satp_value, hw_status) ==
    [new_context EXCEPT !.sepc = entry_point,
                        !.gpr["sp"] = user_stack_top,
                        !.satp = satp_value,
                        !.sstatus = enable_interrupt_on_return(set_user_mode(hw_status))]

\* arguments the calls are made with
EntryPoints == {4096, 12288}
StackTops == {0, 8192, 65536, 131072}
SatpValues == {0, 32768}
HwStatus == 0..(Pow2(StatusWidth) - 1)

\* a call of ProcessContext::new_user_context
NewUserContext ==
    /\ run_log = <<>>
    /\ \E e \in EntryPoints, s \in StackTops, r \in SatpValues, hw \in HwStatus :
          run_log' = <<[call |-> "new_user_context", entry |-> e, stack |-> s,
                        satp |-> r, hw |-> hw,
                        ctx |-> new_user_context(e, s, r, hw)]>>
    /\ UNCHANGED <<schedVars, kernelVars>>

NextContext ==
    \/ NewUserContext

SpecContext == Init /\ [][NextContext]_vars

\* C21: new_user_context(E, S, R) gives sepc = E, sp = S, satp = R, SPP (bit
\* 8) = 0, SPIE (bit 5) = 1, every other status bit as read from the hardware
\* at construction, and every other general register 0.
C21_UserContext ==
    \A i \in 1..Len(run_log) :
        LET c == run_log[i] IN
        /\ c.ctx.sepc = c.entry
        /\ c.ctx.gpr["sp"] = c.stack
        /\ c.ctx.satp = c.satp
        /\ Bit(c.ctx.sstatus, SPP_BIT) = 0
        /\ Bit(c.ctx.sstatus, SPIE_BIT) = 1
        /\ \A b \in 0..(WordBits - 1) \ {SPP_BIT, SPIE_BIT} :
               Bit(c.ctx.sstatus, b) = Bit(c.hw, b)
        /\ \A r \in Registers \ {"sp"} : c.ctx.gpr[r] = 0

\* a context built while the hardware status had SPP set, SPIE clear and other
\* bits (SIE, bit 9) set
C21_Witness ==
    /\ Len(run_log) = 1
    /\ run_log[1].hw = Pow2(9) + Pow2(SPP_BIT) + 2
    /\ run_log[1].ctx.sstatus = Pow2(9) + Pow2(SPIE_BIT) + 2
    /\ run_log[1].ctx.sepc = 12288
    /\ run_log[1].ctx.gpr["sp"] = 131072
    /\ run_log[1].ctx.satp = 32768

(***************************************************************************)
(* process::create_process (process/mod.rs) and the way system_init uses   *)
(* it: create_process, then SCHEDULER.lock().add_process.  The bounds of   *)
(* the user stack and the context that create_process stores in the PCB    *)
(* are kept in the call's record in run_log.  `user_stack_top - 0x10000`   *)
(* is a usize subtraction: on underflow it panics in a build with overflow *)
(* checks and wraps in a build without.                                    *)
(***************************************************************************)
\* the 0x10000 that create_process subtracts from user_stack_top
STACK_SIZE == 65536

\* usize subtraction in a build without overflow checks
wrapping_sub(a, b) == (a - b + WORD) % WORD

\* hardware status values at the time of the call
HwStatusAtCreate == {0, Pow2(SPP_BIT) + 2}

CreateProcess ==
    /\ CanCall
    /\ next_pid <= MaxPid
    /\ \E e \in EntryPoints, s \in StackTops, hw \in HwStatusAtCreate,
          overflow_checks \in BOOLEAN :
          IF s < STACK_SIZE /\ overflow_checks
          THEN \* panic: attempt to subtract with overflow
               /\ kpc' = "panic"
               /\ run_log' = Append(run_log,
                      [call |-> "create_process", entry |-> e, stack |-> s,
                       outcome |-> "panic", pid |-> next_pid, state |-> "Ready",
                       bottom |-> 0, top |-> 0, ctx |-> new_context])
               /\ UNCHANGED pcbs
          ELSE /\ kpc' = kpc
               /\ pcbs' = [p \in Handles \cup {next_pid} |->
                              IF p = next_pid THEN NewPcb ELSE pcbs[p]]
               /\ run_log' = Append(run_log,
                      [call |-> "create_process", entry |-> e, stack |-> s,
                       outcome |-> "ok", pid |-> next_pid, state |-> NewPcb.state,
                       bottom |-> wrapping_sub(s, STACK_SIZE), top |-> s,
                       ctx |-> new_user_context(e, s, 0, hw)])
    /\ next_pid' = next_pid + 1
    /\ primitive' = NoPrimitive
    /\ UNCHANGED <<processes, ready_queue, current,
                   lock_held, lock_owner, cpu, spin, sie, mtime, timer_deadline>>

\* SCHEDULER.lock().add_process(handle) as system_init calls it
CreateAdd(p) == CanCall /\ AddProcess(p)

NextCreate ==
    \/ CreateProcess
    \/ \E p \in Handles : CreateAdd(p)

SpecCreate == Init /\ [][NextCreate]_vars

\* the record of the call the step has made
LastCall == run_log'[Len(run_log')]

\* C22: create_process adds the new entry to the scheduler: when it returns
\* the new id is a key of the process table and at the tail of the ready queue.
C22_CreateAddsToScheduler ==
    [][(CreateProcess /\ LastCall.outcome = "ok") =>
           /\ LastCall.pid \in processes'
           /\ ready_queue' # <<>>
           /\ ready_queue'[Len(ready_queue')] = LastCall.pid]_vars

\* C23: for every entry address and stack top, stack_top < 0x10000 included,
\* create_process returns a Ready entry with id > 0 whose user stack is
\* [stack_top - 0x10000, stack_top], the subtraction never underflowing.
C23_StackBounds ==
    \A i \in 1..Len(run_log) :
        /\ run_log[i].outcome = "ok"
        /\ run_log[i].state = "Ready"
        /\ run_log[i].pid > 0
        /\ run_log[i].top = run_log[i].stack
        /\ run_log[i].bottom = run_log[i].stack - STACK_SIZE

(***************************************************************************)
(* The monitoring enumeration (inspector.rs) next to the global scheduler  *)
(* interface.  get_all_processes / get_current_process lock SCHEDULER,     *)
(* read, and drop the guard when they return.  run_log holds what the      *)
(* enumeration in progress has read.                                       *)
(***************************************************************************)
\* get_all_processes: the (pid, state) pairs of the process table
get_all_processes(s) == {[pid |-> p, state |-> s.pcbs[p].state] : p \in s.processes}

\* get_current_process: Some(snapshot) as a one-element set, None as {}
get_current_process(s) ==
    IF s.current # None /\ has_process(s, s.current)
    THEN {[pid |-> s.current, state |-> s.pcbs[s.current].state]}
    ELSE {}

\* what the enumeration reads of a scheduler value
Observation(s) == [all |-> get_all_processes(s), current |-> get_current_process(s)]

\* an enumeration that reads without taking SCHEDULER
I_Lock_skipped ==
    /\ CanCall
    /\ kpc' = "inspecting"
    /\ UNCHANGED <<schedVars, lock_held, lock_owner, cpu, spin, sie, mtime,
                   timer_deadline, run_log>>

\* `let scheduler = SCHEDULER.lock();`
I_Lock ==
    /\ CanCall
    /\ IF lock_held THEN Spin
       ELSE /\ lock_held' = TRUE
            /\ lock_owner' = cpu
            /\ kpc' = "inspecting"
            /\ UNCHANGED <<schedVars, cpu, spin, sie, mtime, timer_deadline, run_log>>

\* the loop over scheduler.processes() / the read of the current entry
I_Read ==
    /\ ~spin
    /\ kpc = "inspecting"
    /\ kpc' = "inspected"
    /\ run_log' = <<Observation(St)>>
    /\ UNCHANGED <<schedVars, lock_held, lock_owner, cpu, spin, sie, mtime, timer_deadline>>

\* the function returns: the guard is dropped
I_Return ==
    /\ ~spin
    /\ kpc = "inspected"
    /\ kpc' = "run"
    /\ lock_held' = FALSE
    /\ lock_owner' = None
    /\ run_log' = <<>>
    /\ UNCHANGED <<schedVars, cpu, spin, sie, mtime, timer_deadline>>

NextInspect ==
    \/ K_CreateHandle
    \/ \E p \in Handles : K_AddProcess(p)
    \/ K_StartScheduling
    \/ K_Tick
    \/ \E p \in Handles : K_WakeUp(p)
    \/ \E c \in ExitCodes : K_Exit(c)
    \/ K_BlockBegin
    \/ K_BlockFinish
    \/ SwitchPrimitive
    \/ EnableInterrupts
    \/ DisableInterrupts
    \/ ClockAdvance
    \/ TimerInterrupt
    \/ I_Lock
    \/ I_Read
    \/ I_Return

SpecInspect == Init /\ [][NextInspect]_vars

\* a scheduler operation is between two of its steps
MidOperation == kpc \in {"blocking", "at_switch"}

\* C24: the monitoring enumeration leaves the process table, the ready queue,
\* current and every entry's state and time slice unchanged, reads only while
\* it holds SCHEDULER, and never reads in the middle of a scheduler operation:
\* what it has read is the state the scheduler is in.
C24_InspectorReadsUnderLock ==
    /\ [][(I_Lock \/ I_Read \/ I_Return) =>
              UNCHANGED <<processes, ready_queue, current, pcbs>>]_vars
    /\ [](kpc \in {"inspecting", "inspected"} => lock_held /\ lock_owner = cpu)
    /\ [](MidOperation => lock_held /\ kpc \notin {"inspecting", "inspected"})
    /\ [](kpc = "inspected" => run_log = <<Observation(St)>>)

\* the enumeration has read a table of two entries, a Running current one and
\* a Ready one, with interrupts enabled
C24_Witness ==
    /\ kpc = "inspected"
    /\ sie
    /\ Cardinality(run_log[1].all) = 2
    /\ \E e \in run_log[1].current : e.state = "Running"
    /\ \E e \in run_log[1].all : e.state = "Ready"

(***************************************************************************)
(* The child list of one ProcessControlBlock (pcb.rs).  In this scenario   *)
(* run_log is the PCB's `children` vector.                                 *)
(***************************************************************************)
\* ids given to add_child / remove_child
MaxChildPid == 3
\* length the child list is followed to
MaxChildren == 4

\* ProcessControlBlock::add_child: Vec::push
add_child(children, child_pid) == Append(children, child_pid)

\* remove_child that removes the first occurrence only
RECURSIVE remove_first_child(_, _)
remove_first_child(children, child_pid) ==
    IF children = <<>> THEN <<>>
    ELSE IF Head(children) = child_pid THEN Tail(children)
         ELSE <<Head(children)>> \o remove_first_child(Tail(children), child_pid)

\* ProcessControlBlock::remove_child: Vec::retain(|&pid| pid != child_pid)
remove_child(children, child_pid) == Retain(children, child_pid)

CH_AddChild(c) ==
    /\ Handles # {}
    /\ Len(run_log) < MaxChildren
    /\ run_log' = add_child(run_log, c)
    /\ UNCHANGED <<schedVars, kernelVars>>

CH_RemoveChild(c) ==
    /\ Handles # {}
    /\ run_log' = remove_child(run_log, c)
    /\ UNCHANGED <<schedVars, kernelVars>>

NextChildren ==
    \/ P_New
    \/ \E c \in 1..MaxChildPid : CH_AddChild(c)
    \/ \E c \in 1..MaxChildPid : CH_RemoveChild(c)

SpecChildren == Init /\ [][NextChildren]_vars

\* occurrences of id c in list l
Occurrences(l, c) == Cardinality({i \in 1..Len(l) : l[i] = c})

\* l with every occurrence of c left out, the rest in order
Without(l, c) == SelectSeq(l, LAMBDA x : x # c)

\* C25: add_child(c) appends c at the end without deduplicating; remove_child(c)
\* removes every occurrence of c and keeps the other ids in their order;
\* three distinct ids added and one removed leave two.
C25_Children ==
    [][\A c \in 1..MaxChildPid :
          /\ CH_AddChild(c) =>
                /\ Len(run_log') = Len(run_log) + 1
                /\ run_log'[Len(run_log')] = c
                /\ SubSeq(run_log', 1, Len(run_log)) = run_log
                /\ Occurrences(run_log', c) = Occurrences(run_log, c) + 1
          /\ CH_RemoveChild(c) =>
                /\ Occurrences(run_log', c) = 0
                /\ run_log' = Without(run_log, c)
                /\ (Len(run_log) = 3 /\ Cardinality(Range(run_log)) = 3 /\ c \in Range(run_log))
                       => Len(run_log') = 2]_vars

\* the same id was added twice around another one, and a third id removed
C25_Witness ==
    /\ Len(run_log) = 3
    /\ run_log[1] = run_log[3]
    /\ run_log[2] # run_log[1]
    /\ Occurrences(run_log, 1) = 2

(***************************************************************************)
(* The trap dispatcher (trap/mod.rs).  A trap is delivered with a cause,   *)
(* the saved program counter and the registers of the interrupted          *)
(* execution; in this scenario run_log holds the record of the last trap:  *)
(* the hart at entry and the hart trap_handler left.                       *)
(***************************************************************************)
\* scause::Interrupt and scause::Exception of the riscv crate
InterruptCauses == {"UserSoft", "SupervisorSoft", "UserTimer", "SupervisorTimer",
                    "UserExternal", "SupervisorExternal", "Unknown"}
ExceptionCauses == {"InstructionMisaligned", "InstructionFault", "IllegalInstruction",
                    "Breakpoint", "LoadFault", "StoreMisaligned", "StoreFault",
                    "UserEnvCall", "InstructionPageFault", "LoadPageFault",
                    "StorePageFault", "Unknown"}
Causes == [kind : {"Interrupt"}, code : InterruptCauses]
              \cup [kind : {"Exception"}, code : ExceptionCauses]

Interrupt(code) == [kind |-> "Interrupt", code |-> code]
Exception(code) == [kind |-> "Exception", code |-> code]

\* addresses of the trapping instruction (the instruction lies below the top
\* of the address space)
TrapPcs == {0, 4096, WORD - 8}
\* a0 (first argument) and a7 (syscall number) at an ecall
ArgValues == {0, 1}
SyscallNumbers == {64, 93}
\* isize results of the system calls (syscall_impl.rs returns -1 on failure)
SyscallResults == {-1, 0, 5}

\* isize stored in a 64-bit register and read back
to_register(result) == (result + WORD) % WORD
as_isize(v) == IF v >= WORD \div 2 THEN v - WORD ELSE v

\* SyscallContext::from_registers: a7 and a0..a5
from_registers(gpr) ==
    [syscall_num |-> gpr.a7, args |-> <<gpr.a0, gpr.a1, gpr.a2, gpr.a3, gpr.a4, gpr.a5>>]

\* SyscallContext::set_return_value
set_return_value(gpr, result) == [gpr EXCEPT !.a0 = to_register(result)]

\* timer_interrupt_handler: poll_keyboard (reads characters only), set_next_timer
timer_interrupt_handler(h, time) == [h EXCEPT !.deadline = set_next_timer(time)]

\* external_interrupt_handler / software_interrupt_handler: a log line
external_interrupt_handler(h) == h
software_interrupt_handler(h) == h

\* a breakpoint handler that skips four bytes
breakpoint_handler_skip4(h, sepc) == [h EXCEPT !.sepc = sepc + 4]

\* breakpoint_handler: sepc::write(sepc + 2)
breakpoint_handler(h, sepc) == [h EXCEPT !.sepc = sepc + 2]

\* a page fault handler that returns after logging
page_fault_handler_returns(h) == h

\* page_fault_handler: ends in hlt_loop()
page_fault_handler(h) == [h EXCEPT !.outcome = "halt"]

\* illegal_instruction_handler and the two `_ => panic!` arms
illegal_instruction_handler(h) == [h EXCEPT !.outcome = "panic"]
unhandled(h) == [h EXCEPT !.outcome = "panic"]

\* a syscall handler that leaves the result out of a0
syscall_handler_result_dropped(h, sepc, result) ==
    [h EXCEPT !.dispatched = Append(@, from_registers(h.gpr)),
              !.sepc = sepc + 4]

\* syscall_handler: from_registers, syscall_dispatcher (returning result),
\* set_return_value, sepc::write(sepc + 4)
syscall_handler(h, sepc, result) ==
    [h EXCEPT !.dispatched = Append(@, from_registers(h.gpr)),
              !.gpr = set_return_value(@, result),
              !.sepc = sepc + 4]

\* trap_handler: the match on scause.cause()
trap_handler(h, cause, result, time) ==
    LET sepc == h.sepc IN
    IF cause.kind = "Interrupt"
    THEN CASE cause.code = "SupervisorTimer" -> timer_interrupt_handler(h, time)
           [] cause.code = "SupervisorExternal" -> external_interrupt_handler(h)
           [] cause.code = "SupervisorSoft" -> software_interrupt_handler(h)
           [] OTHER -> unhandled(h)
    ELSE CASE cause.code = "Breakpoint" -> breakpoint_handler(h, sepc)
           [] cause.code \in {"LoadPageFault", "StorePageFault", "InstructionPageFault"}
                 -> page_fault_handler(h)
           [] cause.code = "IllegalInstruction" -> illegal_instruction_handler(h)
           [] cause.code = "UserEnvCall" -> syscall_handler(h, sepc, result)
           [] OTHER -> unhandled(h)

\* the hart when the hardware enters trap_handler
TrapEntry(pc, a0, a7) ==
    [sepc |-> pc,
     gpr |-> [a0 |-> a0, a1 |-> 0, a2 |-> 0, a3 |-> 0, a4 |-> 0, a5 |-> 0, a7 |-> a7],
     dispatched |-> <<>>,
     outcome |-> "return",
     deadline |-> timer_deadline]

\* one trap: the hardware delivers cause, trap_handler runs to its end
TrapHandler ==
    /\ CanCall
    /\ \E cause \in Causes, pc \in TrapPcs, a0 \in ArgValues, a7 \in SyscallNumbers,
          result \in SyscallResults :
          /\ cause.kind = "Interrupt" => sie
          /\ cause = Interrupt("SupervisorTimer") => mtime >= timer_deadline
          /\ LET entry == TrapEntry(pc, a0, a7)
                 h == trap_handler(entry, cause, result, mtime)
             IN /\ run_log' = <<[cause |-> cause, result |-> result,
                                 entry |-> entry, exit |-> h]>>
                /\ timer_deadline' = h.deadline
                /\ kpc' = IF h.outcome = "return" THEN kpc ELSE h.outcome
    /\ UNCHANGED <<schedVars, lock_held, lock_owner, cpu, spin, sie, mtime>>

NextTrap ==
    \/ TrapHandler
    \/ ClockAdvance
    \/ EnableInterrupts
    \/ DisableInterrupts

SpecTrap == Init /\ [][NextTrap]_vars

\* the last trap
LastTrap == run_log[1]
Trapped(cause) == run_log # <<>> /\ LastTrap.cause = cause

\* C26: on a system-call exception the snapshot of the registers at entry is
\* handed to the syscall dispatcher exactly once, a0 holds the signed result,
\* sepc is its entry value + 4, and the handler returns also for a negative
\* result.
C26_Syscall ==
    Trapped(Exception("UserEnvCall")) =>
        /\ LastTrap.exit.dispatched = <<from_registers(LastTrap.entry.gpr)>>
        /\ as_isize(LastTrap.exit.gpr.a0) = LastTrap.result
        /\ LastTrap.exit.sepc = LastTrap.entry.sepc + 4
        /\ LastTrap.exit.outcome = "return"
        /\ kpc = "run"

\* a system call that failed with -1 while a0 held another value at entry
C26_Witness ==
    /\ Trapped(Exception("UserEnvCall"))
    /\ LastTrap.result < 0
    /\ LastTrap.entry.gpr.a0 # LastTrap.exit.gpr.a0
    /\ LastTrap.entry.sepc > 0

\* C27: on a breakpoint sepc is its entry value + 2 and the handler returns;
\* no cause other than breakpoint and system call changes sepc.
C27_Breakpoint ==
    /\ Trapped(Exception("Breakpoint")) =>
          /\ LastTrap.exit.sepc = LastTrap.entry.sepc + 2
          /\ LastTrap.exit.outcome = "return"
          /\ kpc = "run"
    /\ (run_log # <<>> /\ LastTrap.cause \notin {Exception("Breakpoint"), Exception("UserEnvCall")})
          => LastTrap.exit.sepc = LastTrap.entry.sepc

C27_Witness ==
    /\ Trapped(Exception("Breakpoint"))
    /\ LastTrap.entry.sepc = 4096
    /\ LastTrap.exit.sepc = 4098

\* the causes that halt, and the causes that return
PageFaults == {Exception("LoadPageFault"), Exception("StorePageFault"),
               Exception("InstructionPageFault")}
Returning == {Interrupt("SupervisorTimer"), Interrupt("SupervisorExternal"),
              Interrupt("SupervisorSoft"), Exception("Breakpoint"),
              Exception("UserEnvCall")}

\* C28: every cause has exactly one outcome: the page faults halt, illegal
\* instruction and every cause outside timer, external, software, breakpoint
\* and system call abort, those five return; after a halt or an abort the
\* kernel takes no further step.
C28_Classification ==
    /\ [](run_log # <<>> =>
            /\ LastTrap.exit.outcome = "halt" <=> LastTrap.cause \in PageFaults
            /\ LastTrap.exit.outcome = "panic" <=> LastTrap.cause \notin (PageFaults \cup Returning)
            /\ LastTrap.exit.outcome = "return" <=> LastTrap.cause \in Returning
            /\ kpc = (IF LastTrap.exit.outcome = "return" THEN "run" ELSE LastTrap.exit.outcome))
    /\ [][(kpc \in {"halt", "panic"}) =>
             (UNCHANGED <<kpc, run_log, schedVars, timer_deadline>>)]_vars

\* a page fault halted the kernel
C28_Witness ==
    /\ Trapped(Exception("StorePageFault"))
    /\ kpc = "halt"

(***************************************************************************)
(* schedule() on an empty ready queue, and the entry it switches away from *)
(***************************************************************************)
\* C29: schedule() with an empty ready queue changes nothing: current, the
\* process table, the ready queue and every entry's state and time slice stay,
\* no switch primitive is invoked and the call returns.
C29_ScheduleIdle ==
    /\ [](ready_queue = <<>> => schedule(St) = St)
    /\ [][(ready_queue = <<>> /\ Schedule) =>
              /\ UNCHANGED <<current, processes, ready_queue, pcbs>>
              /\ primitive'.kind = "none"]_vars

\* nothing is ready while an entry is current
C29_Witness ==
    /\ ready_queue = <<>>
    /\ current # None
    /\ processes # {}
    /\ pcbs[current].state = "Running"

\* schedule() reaches switch_to: a next entry of the table, another one current
SwitchesAway ==
    /\ ready_queue # <<>>
    /\ has_process(St, Head(ready_queue))
    /\ current # None
    /\ Head(ready_queue) # current

\* C30: when schedule() switches away from the current entry, the entry becomes
\* Ready and is appended to the ready-queue tail if and only if its state was
\* Running; otherwise (Blocked, Zombie) it keeps its state and is not enqueued.
C30_DemoteIffRunning ==
    SwitchesAway =>
        LET s == schedule(St) IN
        /\ s.primitive = [kind |-> "switch_context", from |-> current,
                          to |-> Head(ready_queue)]
        /\ IF pcbs[current].state = "Running"
           THEN /\ s.pcbs[current].state = "Ready"
                /\ s.ready_queue = Append(Tail(ready_queue), current)
           ELSE /\ s.pcbs[current].state = pcbs[current].state
                /\ s.ready_queue = Tail(ready_queue)

\* schedule() has switched away from a Blocked entry, which is not queued
C30_Witness ==
    /\ primitive.kind = "switch_context"
    /\ primitive.from \in processes
    /\ pcbs[primitive.from].state = "Blocked"
    /\ primitive.from \notin Range(ready_queue)
    /\ current = primitive.to

(***************************************************************************)
(* schedule() popping the id of the current entry                          *)
(***************************************************************************)
\* pick_next returns the id of the current entry
PopsCurrent ==
    /\ ready_queue # <<>>
    /\ current # None
    /\ Head(ready_queue) = current
    /\ has_process(St, current)

\* C31: when the id schedule() pops is the current id, the entry is set to
\* Running with time slice 5, current stays, the id is not put back in the
\* queue, no switch primitive is invoked and no other entry changes.
C31_RefreshCurrent ==
    /\ [](PopsCurrent =>
            LET s == schedule(St) IN
            /\ s.pcbs[current].state = "Running"
            /\ s.pcbs[current].time_slice = QUANTUM
            /\ s.current = current
            /\ s.ready_queue = Tail(ready_queue)
            /\ s.primitive = NoPrimitive
            /\ s.processes = processes
            /\ \A p \in Handles \ {current} : s.pcbs[p] = pcbs[p])
    /\ [][(PopsCurrent /\ Schedule) =>
              /\ pcbs'[current].state = "Running"
              /\ pcbs'[current].time_slice = QUANTUM
              /\ current' = current
              /\ ready_queue' = Tail(ready_queue)
              /\ primitive'.kind = "none"]_vars

\* the current entry, woken to Ready with a used time slice, is at the head of
\* the queue and queued once
C31_Witness ==
    /\ PopsCurrent
    /\ pcbs[current].state = "Ready"
    /\ pcbs[current].time_slice < QUANTUM
    /\ current \notin Range(Tail(ready_queue))

(***************************************************************************)
(* The instant a switch primitive is invoked (kpc = "at_switch" in the     *)
(* kernel specification).                                                  *)
(***************************************************************************)
\* the step ends with a switch primitive about to be executed
InvokesPrimitive == kpc # "at_switch" /\ kpc' = "at_switch"

Lock(pid) == <<[ev |-> "lock", pid |-> pid]>>
Unlock(pid) == <<[ev |-> "unlock", pid |-> pid]>>
Primitive(kind) == <<[ev |-> kind, pid |-> None]>>

\* a statement `process.lock().f()`: the guard is a temporary
LockedCall(pid) == Lock(pid) \o Unlock(pid)

\* Scheduler::enqueue: get_process, process.lock().state()
enqueue_locks(s, pid) == IF has_process(s, pid) THEN LockedCall(pid) ELSE <<>>

\* switch_to that keeps both guards across enqueue
switch_to_locks_kept(s, current_pid, next_pid_) ==
    Lock(current_pid) \o Lock(next_pid_)
      \o (IF s.pcbs[current_pid].state = "Running"
          THEN enqueue_locks(s, current_pid)
          ELSE <<>>)
      \o Unlock(current_pid) \o Unlock(next_pid_)
      \o Primitive("switch_context")

\* Scheduler::switch_to: lock both; if Running: drop both, enqueue, lock both
\* again; drop both; switch_context
switch_to_locks(s, current_pid, next_pid_) ==
    Lock(current_pid) \o Lock(next_pid_)
      \o (IF s.pcbs[current_pid].state = "Running"
          THEN Unlock(current_pid) \o Unlock(next_pid_)
                 \o enqueue_locks(s, current_pid)
                 \o Lock(current_pid) \o Lock(next_pid_)
          ELSE <<>>)
      \o Unlock(current_pid) \o Unlock(next_pid_)
      \o Primitive("switch_context")

\* Scheduler::start_process: lock next, drop(next), jump
start_process_locks(s, next_pid_) ==
    Lock(next_pid_) \o Unlock(next_pid_) \o Primitive("start")

\* Scheduler::schedule
schedule_locks(s) ==
    IF s.ready_queue = <<>> THEN <<>>
    ELSE LET next == Head(s.ready_queue)
             s1 == [s EXCEPT !.ready_queue = Tail(@)]
         IN IF ~has_process(s1, next) THEN <<>>
            ELSE IF next = s1.current THEN Lock(next) \o Unlock(next)
            ELSE IF s1.current # None THEN switch_to_locks(s1, s1.current, next)
            ELSE start_process_locks(s1, next)

\* Scheduler::tick: pcb is dropped before schedule(), or at the end of the block
tick_locks(s) ==
    IF s.current # None /\ has_process(s, s.current)
    THEN Lock(s.current) \o Unlock(s.current)
           \o (IF pcb_tick_ret(s.pcbs[s.current])
               THEN schedule_locks([s EXCEPT !.pcbs[s.current] = pcb_tick(@)])
               ELSE <<>>)
    ELSE <<>>

\* Scheduler::block_current: drop(pcb) before schedule()
block_current_locks(s) ==
    IF s.current # None /\ has_process(s, s.current)
    THEN Lock(s.current) \o Unlock(s.current)
           \o schedule_locks([s EXCEPT !.pcbs[s.current] = set_state(@, "Blocked")])
    ELSE <<>>

\* Scheduler::wake_up: drop(pcb) before enqueue
wake_up_locks(s, pid) ==
    IF has_process(s, pid)
    THEN Lock(pid) \o Unlock(pid)
           \o (IF s.pcbs[pid].state = "Blocked"
               THEN enqueue_locks([s EXCEPT !.pcbs[pid] = set_state(@, "Ready")], pid)
               ELSE <<>>)
    ELSE <<>>

\* Scheduler::add_process: process.lock().pid(), process.lock().state()
add_process_locks(s, pid) == LockedCall(pid) \o LockedCall(pid)

\* the locks held after the first n events of a sequence
RECURSIVE HeldAfter(_, _)
HeldAfter(events, n) ==
    IF n = 0 THEN {}
    ELSE LET e == events[n]
             before == HeldAfter(events, n - 1)
         IN IF e.ev = "lock" THEN before \cup {e.pid}
            ELSE IF e.ev = "unlock" THEN before \ {e.pid}
            ELSE before

\* no lock is taken while held (spin::Mutex is not reentrant), a primitive is
\* invoked with no lock held, and every lock taken is released when the
\* operation ends or transfers control
LocksSafe(events) ==
    /\ \A i \in 1..Len(events) :
          /\ events[i].ev = "lock" => events[i].pid \notin HeldAfter(events, i - 1)
          /\ events[i].ev \in {"switch_context", "start"} => HeldAfter(events, i - 1) = {}
    /\ HeldAfter(events, Len(events)) = {}

\* C33: no PCB lock is held when a switch primitive is invoked and no scheduler
\* operation takes a PCB lock it already holds; in switch_to both locks are
\* released before enqueue locks the outgoing entry again and before
\* switch_context.
C33_NoPcbLockAtSwitch ==
    /\ LocksSafe(schedule_locks(St))
    /\ LocksSafe(tick_locks(St))
    /\ LocksSafe(block_current_locks(St))
    /\ \A p \in Handles :
          /\ LocksSafe(wake_up_locks(St, p))
          /\ LocksSafe(add_process_locks(St, p))

\* schedule() is about to switch away from a Running entry: switch_to drops
\* both locks, enqueue locks the outgoing entry, both are taken again
C33_Witness ==
    /\ SwitchesAway
    /\ pcbs[current].state = "Running"
    /\ Len(schedule_locks(St)) = 11
    /\ schedule_locks(St)[5] = [ev |-> "lock", pid |-> current]
    /\ schedule_locks(St)[11].ev = "switch_context"

(***************************************************************************)
(* Which primitive schedule() invokes                                      *)
(***************************************************************************)
\* pick_next returns an id of the table
PopsEntry == ready_queue # <<>> /\ has_process(St, Head(ready_queue))

\* C34: schedule() invokes switch_context, saving into the slot of the current
\* entry, exactly when current is set and differs from the popped id, and the
\* first-start jump, saving nothing, exactly when current is empty, also after
\* remove_process took the running entry away.
C34_PrimitiveChoice ==
    PopsEntry =>
        LET s == schedule(St)
            next == Head(ready_queue)
        IN /\ s.primitive.kind = "switch_context" <=> (current # None /\ current # next)
           /\ s.primitive.kind = "start" <=> current = None
           /\ s.primitive.kind = "none" <=> current = next
           /\ s.primitive.kind = "switch_context" =>
                 s.primitive.from = current /\ s.primitive.to = next
           /\ s.primitive.kind = "start" =>
                 /\ s.primitive.from = None /\ s.primitive.to = next
                 /\ \A p \in Handles \ {next} : s.pcbs[p] = pcbs[p]

\* the first-start jump was used after the running entry had been removed
C34_Witness ==
    /\ primitive.kind = "start"
    /\ current = primitive.to
    /\ \E p \in Handles \ processes : pcbs[p].state = "Running"

(***************************************************************************)
(* Scheduler::tick                                                         *)
(***************************************************************************)
\* the scheduler value after the decrement of the current entry's time slice
Decremented ==
    [St EXCEPT !.pcbs[current].time_slice = IF @ > 0 THEN @ - 1 ELSE 0]

\* C35: tick() with no current entry changes nothing; otherwise it decrements
\* the current entry's time slice (not below 0), changing no other entry, and
\* calls schedule() iff the time slice is 0 afterwards; while the time slice
\* stays 0 and the ready queue is empty every further tick changes nothing.
C35_Tick ==
    /\ current = None => tick(St) = St
    /\ current # None =>
          /\ has_process(St, current)
          /\ Decremented.pcbs[current].time_slice \in 0..(QUANTUM - 1)
          /\ \A p \in Handles \ {current} : Decremented.pcbs[p] = pcbs[p]
          /\ tick(St) = (IF Decremented.pcbs[current].time_slice = 0
                         THEN schedule(Decremented)
                         ELSE Decremented)
          /\ (pcbs[current].time_slice = 0 /\ ready_queue = <<>>) => tick(St) = St

\* the time slice of the current entry is used up and nothing is ready
C35_Witness ==
    /\ current # None
    /\ pcbs[current].state = "Running"
    /\ pcbs[current].time_slice = 0
    /\ ready_queue = <<>>

C37_RemoveProcess ==
    \A p \in 1..MaxPid :
        LET s == remove_process(St, p) IN
        /\ p \notin s.processes
        /\ s.processes = processes \ {p}
        /\ p \notin Range(s.ready_queue)
        /\ s.ready_queue = SelectSeq(ready_queue, LAMBDA q : q # p)
        /\ s.current = (IF current = p THEN None ELSE current)
        /\ s.pcbs = pcbs
        /\ s.primitive = NoPrimitive
        /\ p \notin processes => s = St

\* the running entry was removed while another id was queued
C37_Witness ==
    /\ \E p \in Handles \ processes : pcbs[p].state = "Running"
    /\ current = None
    /\ ready_queue # <<>>
    /\ primitive.kind = "none"

(***************************************************************************)
(* process::exit_current_process                                           *)
(***************************************************************************)
\* exit_current_process(c) runs (SCHEDULER is free)
Exits(c) == ~lock_held /\ K_Exit(c)

\* C38: exit_current_process(c) with a current entry leaves it Zombie with exit
\* code Some(c) and runs schedule(): with a non-empty queue the head becomes
\* Running and current and the exited entry is not queued; an exited entry
\* that is no longer current never becomes current again; with no current
\* entry nothing changes.
C38_ExitCurrent ==
    /\ [][\A c \in ExitCodes : Exits(c) =>
            IF current # None
            THEN /\ pcbs'[current].exit_code = {c}
                 /\ pcbs'[current].state = "Zombie"
                 /\ ready_queue # <<>> =>
                       /\ current' = Head(ready_queue)
                       /\ current' # current
                       /\ pcbs'[current'].state = "Running"
                       /\ current \notin Range(ready_queue')
            ELSE UNCHANGED <<processes, ready_queue, current, pcbs>>]_vars
    /\ [][\A p \in Handles :
            (pcbs[p].exit_code # {} /\ current # p) => current' # p]_vars

(***************************************************************************)
(* Invariants of the Scheduler's fields and of the exit code               *)
(***************************************************************************)
\* C39: current, when set, is a key of the process table and so is every id in
\* the ready queue: schedule() never takes its not-found return and its unwrap
\* of the current entry never fails.
C39_ReferentialIntegrity ==
    /\ current # None => has_process(St, current)
    /\ \A i \in 1..Len(ready_queue) : has_process(St, ready_queue[i])
    /\ ready_queue # <<>> => schedule(St) # [St EXCEPT !.ready_queue = Tail(@)]
                             \/ Head(ready_queue) = current

\* an entry that ran and blocked has been removed from the table while
\* another one is current and ids are queued
C39_Witness ==
    /\ \E p \in Handles \ processes : pcbs[p].state = "Blocked"
    /\ current # None
    /\ ready_queue # <<>>

\* C40: an entry has an exit code iff it is Zombie, and a recorded exit code is
\* not changed by a scheduler operation.
C40_ExitCodeIffZombie ==
    /\ [](\A p \in Handles : pcbs[p].exit_code # {} <=> pcbs[p].state = "Zombie")
    /\ [][\A p \in Handles :
            (pcbs[p].exit_code # {} /\ ~(\E c \in ExitCodes : SetExitCode(p, c)))
                => pcbs'[p].exit_code = pcbs[p].exit_code]_vars

====
